---- MODULE Spec2Model ----
(***************************************************************************)
(* A model of src/agent.py: the workspace sandbox (safe_path), the five    *)
(* tools, the client-side cd emulation, the tool-dispatch loop of          *)
(* run_agent_turn and the CLI loop of main.                                *)
(*                                                                         *)
(* Text is a sequence of strings.  Wherever the code inspects, measures or *)
(* slices text (paths, file text, command output, input lines) every       *)
(* element is one character; the literal pieces of an f-string that the    *)
(* code only concatenates are kept as one element each.                    *)
(*                                                                         *)
(* A path is a sequence of components, each component a sequence of        *)
(* characters; <<>> is the OS root.  The model is of a POSIX host.         *)
(***************************************************************************)
EXTENDS Integers, Sequences, FiniteSets, TLC

VARIABLES
    CURRENT_DIR,    \* agent.py:33, a path relative to WORKSPACE (<<>> is ".")
    fs,             \* the host filesystem: existing path -> node
    pc,             \* where the process is: "prompt", "request", "dispatch", "exited", "crashed"
    messages,       \* run_agent_turn's local message list
    tool_calls,     \* msg.tool_calls of the response being dispatched
    assistant_msg,  \* the assistant message being built for that response
    printed,        \* what main printed last
    last,           \* what the last step did (observation only)
    requests,       \* completion requests made in the turn in progress
    calls,          \* tool calls dispatched since the process started
    posts,          \* blog-api: the Post table, a function from identifier to row
    high,           \* blog-api: the highest identifier the table has ever assigned
    autoinc,        \* blog-api: whether the table never assigns an identifier twice
    inflight,       \* blog-api: sync creates between their lookup and their insert
    served,         \* blog-api: requests taken so far
    removed,        \* blog-api: identifiers whose delete succeeded (observation only)
    response,       \* blog-api: the response sent last
    body            \* blog-api: the PostUpdate payload of the request answered last

agent_vars == <<CURRENT_DIR, fs, pc, messages, tool_calls, assistant_msg, printed, last,
                requests, calls>>

blog_vars == <<posts, high, autoinc, inflight, served, removed, response, body>>

vars == <<CURRENT_DIR, fs, pc, messages, tool_calls, assistant_msg, printed, last,
          requests, calls, posts, high, autoinc, inflight, served, removed, response,
          body>>

\* a response: the request's number, the router that served it, the
\* operation, the HTTP status, and the Post (or the count of Posts) returned
Response(n, variant, op, status, id, title, content, count) ==
    [n |-> n, variant |-> variant, op |-> op, status |-> status, id |-> id,
     title |-> title, content |-> content, count |-> count]

\* a request without a PostUpdate payload
NoUpdate == [set |-> {}, title |-> "t", content |-> "c"]

\* the blog application with an empty table and no request taken
BlogIdle ==
    /\ posts = <<>>
    /\ high = 0
    /\ autoinc = FALSE
    /\ inflight = {}
    /\ served = 0
    /\ removed = {}
    /\ response = Response(0, "", "", 0, 0, "", "", 0)
    /\ body = NoUpdate

-----------------------------------------------------------------------------
(* Text primitives: the str methods the code calls.                        *)

Whitespace == {" ", "\t", "\n", "\r"}

Min(a, b) == IF a <= b THEN a ELSE b

Max(a, b) == IF a >= b THEN a ELSE b

\* s[:n]
Prefix(s, n) == SubSeq(s, 1, Min(n, Len(s)))

\* s[n:] with n counted from 0
Drop(s, n) == SubSeq(s, n + 1, Len(s))

\* s.startswith(p)
StartsWith(s, p) == Len(p) <= Len(s) /\ SubSeq(s, 1, Len(p)) = p

\* s.replace(a, b) for single characters
Replace(s, a, b) == [i \in 1..Len(s) |-> IF s[i] = a THEN b ELSE s[i]]

\* s.lstrip(chars)
LStrip(s, chars) ==
    LET keep == {i \in 1..Len(s) : s[i] \notin chars}
    IN  IF keep = {} THEN <<>>
        ELSE Drop(s, (CHOOSE i \in keep : \A j \in keep : i <= j) - 1)

\* s.rstrip(chars)
RStrip(s, chars) ==
    LET keep == {i \in 1..Len(s) : s[i] \notin chars}
    IN  IF keep = {} THEN <<>>
        ELSE Prefix(s, CHOOSE i \in keep : \A j \in keep : i >= j)

\* s.strip()
Strip(s) == RStrip(LStrip(s, Whitespace), Whitespace)

\* s.lower() over the letters the inputs use
LowerChar(c) ==
    CASE c = "C" -> "c" [] c = "D" -> "d" [] c = "E" -> "e" [] c = "X" -> "x"
      [] c = "I" -> "i" [] c = "T" -> "t" [] c = "Q" -> "q" [] c = "U" -> "u"
      [] OTHER -> c

Lower(s) == [i \in 1..Len(s) |-> LowerChar(s[i])]

\* s.split(sep) for a single character sep: the pieces between separators
RECURSIVE SplitOn(_, _)
SplitOn(s, sep) ==
    LET at == {i \in 1..Len(s) : s[i] = sep}
    IN  IF at = {} THEN <<s>>
        ELSE LET k == CHOOSE i \in at : \A j \in at : i <= j
             IN  <<Prefix(s, k - 1)>> \o SplitOn(Drop(s, k), sep)

\* sep.join(pieces)
RECURSIVE Join(_, _)
Join(pieces, sep) ==
    IF pieces = <<>> THEN <<>>
    ELSE IF Len(pieces) = 1 THEN pieces[1]
    ELSE pieces[1] \o <<sep>> \o Join(Tail(pieces), sep)

-----------------------------------------------------------------------------
(* Paths: what pathlib does with the strings.                              *)

DOTDOT == <<".", ".">>

\* The components pathlib keeps of a relative path string: empty pieces and
\* "." are dropped, ".." is kept.
PathParts(s) ==
    SelectSeq(SplitOn(s, "/"), LAMBDA c : c # <<>> /\ c # <<".">>)

\* str(p) of an absolute path
PathStr(p) == IF p = <<>> THEN <<"/">> ELSE <<"/">> \o Join(p, "/")

\* str(p) / p.as_posix() of a relative path
RelStr(p) == IF p = <<>> THEN <<".">> ELSE Join(p, "/")

Parent(p) == IF p = <<>> THEN <<>> ELSE SubSeq(p, 1, Len(p) - 1)

\* p is q or a descendant of q (component-wise)
IsUnder(p, q) == Len(q) <= Len(p) /\ SubSeq(p, 1, Len(q)) = q

\* agent.py:27-28.  BASE_DIR is /h, the workspace /h/w.
BASE_DIR == << <<"h">> >>

WORKSPACE == BASE_DIR \o << <<"w">> >>

\* A directory beside the workspace whose name starts with the workspace's.
SIBLING == BASE_DIR \o << <<"w", "x">> >>

-----------------------------------------------------------------------------
(* The filesystem.  A node is a directory, a regular file with its stored  *)
(* characters, or a symbolic link to an absolute path.                     *)

DirNode == [kind |-> "dir", text |-> <<>>, target |-> <<>>]

FileNode(t) == [kind |-> "file", text |-> t, target |-> <<>>]

LinkNode(p) == [kind |-> "link", text |-> <<>>, target |-> p]

\* The walk of Path.resolve() (strict=False) over parts from the canonical
\* directory done: ".." goes to the parent of what is resolved so far, a
\* symbolic link is replaced by its (canonical) target, a missing component
\* is kept.
RECURSIVE Walk(_, _, _)
Walk(f, done, parts) ==
    IF parts = <<>> THEN done
    ELSE LET c    == Head(parts)
             next == done \o <<c>>
         IN  IF c = DOTDOT THEN Walk(f, Parent(done), Tail(parts))
             ELSE IF next \in DOMAIN f /\ f[next].kind = "link"
                  THEN Walk(f, f[next].target, Tail(parts))
                  ELSE Walk(f, next, Tail(parts))

\* p.resolve() of an absolute path p
Resolve(f, p) == Walk(f, <<>>, p)

Exists(f, p) == p \in DOMAIN f

IsDir(f, p) == p \in DOMAIN f /\ f[p].kind = "dir"

IsFile(f, p) == p \in DOMAIN f /\ f[p].kind = "file"

\* f with p mapped to node
Put(f, p, node) == [q \in DOMAIN f \cup {p} |-> IF q = p THEN node ELSE f[q]]

\* f without p and everything below it
RemoveTree(f, p) == [q \in {r \in DOMAIN f : ~IsUnder(r, p)} |-> f[q]]

\* The proper prefixes of p and p itself, shortest first
Ancestors(p) == [i \in 1..Len(p) |-> SubSeq(p, 1, i)]

\* Path.mkdir(parents=True, exist_ok=True): fails when p or one of its
\* ancestors exists and is not a directory, and creates nothing then.
Mkdir(f, p) ==
    IF \E i \in 1..Len(p) : Exists(f, Ancestors(p)[i]) /\ ~IsDir(f, Ancestors(p)[i])
    THEN [raised |-> TRUE,
          exc |-> <<IF Exists(f, p) THEN "[Errno 17] File exists: '"
                    ELSE "[Errno 20] Not a directory: '">> \o PathStr(p) \o <<"'">>,
          fs |-> f]
    ELSE [raised |-> FALSE, exc |-> <<>>,
          fs |-> [q \in DOMAIN f \cup {Ancestors(p)[i] : i \in 1..Len(p)} |->
                     IF q \in DOMAIN f THEN f[q] ELSE DirNode]]

-----------------------------------------------------------------------------
(* The sandbox (agent.py:36-72).                                           *)

\* Python's None, where a path string is expected
None == <<"<None>">>

\* get_current_abs_dir(): (WORKSPACE / CURRENT_DIR).resolve()
get_current_abs_dir(f, cur) == Resolve(f, WORKSPACE \o cur)

\* agent.py:51-58: None and "" become ".", backslashes become slashes,
\* surrounding whitespace goes
NormalizePath(relative_path) ==
    LET given == IF relative_path = None THEN <<".">> ELSE relative_path
        clean == Strip(Replace(given, "\\", "/"))
    IN  IF clean = <<>> THEN <<".">> ELSE clean

\* safe_path joining every path to the current directory
SafeTarget_FromCwd(f, cur, norm) ==
    Resolve(f, get_current_abs_dir(f, cur) \o PathParts(norm))

\* agent.py:60-67: the canonical target of a normalized path
SafeTarget(f, cur, norm) ==
    IF StartsWith(norm, <<"/">>)
    THEN Resolve(f, WORKSPACE \o PathParts(LStrip(norm, {"/"})))
    ELSE Resolve(f, get_current_abs_dir(f, cur) \o PathParts(norm))

\* agent.py:69: the containment test, on the two path strings
InWorkspace(target) == StartsWith(PathStr(target), PathStr(WORKSPACE))

\* safe_path(relative_path): the target, or ValueError
safe_path(f, cur, relative_path) ==
    LET target == SafeTarget(f, cur, NormalizePath(relative_path))
    IN  IF ~InWorkspace(target)
        THEN [raised |-> TRUE,
              exc |-> <<"Refusing to access path outside workspace: ">> \o PathStr(target),
              target |-> target]
        ELSE [raised |-> FALSE, exc |-> <<>>, target |-> target]

\* p.relative_to(WORKSPACE): the rest of p below the workspace, or ValueError
relative_to(p) ==
    IF IsUnder(p, WORKSPACE)
    THEN [raised |-> FALSE, exc |-> <<>>, rel |-> Drop(p, Len(WORKSPACE))]
    ELSE [raised |-> TRUE,
          exc |-> <<"'">> \o PathStr(p) \o <<"' is not in the subpath of '">>
                  \o PathStr(WORKSPACE) \o <<"'">>,
          rel |-> <<>>]

-----------------------------------------------------------------------------
(* The tools (agent.py:78-179).  Each takes the filesystem and CURRENT_DIR *)
(* and yields [raised, exc, result, fs]: the exception text when it        *)
(* raises, else its result string, and the filesystem it leaves.           *)

Returns(text, f) == [raised |-> FALSE, exc |-> <<>>, result |-> text, fs |-> f]

Raises(text, f) == [raised |-> TRUE, exc |-> text, result |-> <<>>, fs |-> f]

\* The characters names are made of, in code-point order
Alphabet == <<".", "a", "b", "d", "f", "g", "h", "l", "w", "x">>

CharCode(c) == CHOOSE i \in 1..Len(Alphabet) : Alphabet[i] = c

\* n < m as Python compares the two names
NameLess(n, m) ==
    \E k \in 1..(Len(n) + 1) :
        /\ k <= Len(m)
        /\ \A j \in 1..(k - 1) : n[j] = m[j]
        /\ (k = Len(n) + 1 \/ CharCode(n[k]) < CharCode(m[k]))

\* sorted(names)
RECURSIVE SortNames(_)
SortNames(names) ==
    IF names = {} THEN <<>>
    ELSE LET least == CHOOSE n \in names : \A m \in names \ {n} : NameLess(n, m)
         IN  <<least>> \o SortNames(names \ {least})

\* the names p.iterdir() yields
Children(f, p) == {q[Len(q)] : q \in {r \in DOMAIN f : r # <<>> /\ Parent(r) = p}}

\* item.is_dir(), which follows a symbolic link
ItemIsDir(f, q) == IsDir(f, Resolve(f, q))

\* the listing without the "or" that names an empty directory
Listing_Blank(f, p) ==
    LET names == SortNames(Children(f, p))
        lines == [i \in 1..Len(names) |->
                     <<IF ItemIsDir(f, p \o <<names[i]>>) THEN "/ " ELSE "  ">> \o names[i]]
    IN  Join(lines, "\n")

\* agent.py:87-92
Listing(f, p) ==
    LET names == SortNames(Children(f, p))
        lines == [i \in 1..Len(names) |->
                     <<IF ItemIsDir(f, p \o <<names[i]>>) THEN "/ " ELSE "  ">> \o names[i]]
    IN  IF lines = <<>> THEN <<"(empty directory)">> ELSE Join(lines, "\n")

tool_list_directory(f, cur, path) ==
    LET sp  == safe_path(f, cur, path)
        p   == sp.target
        rel == relative_to(p)
    IN  IF sp.raised THEN Raises(sp.exc, f)
        ELSE IF rel.raised THEN Raises(rel.exc, f)
        ELSE IF ~Exists(f, p)
             THEN Returns(<<"Directory does not exist: ">> \o RelStr(rel.rel), f)
        ELSE IF ~IsDir(f, p)
             THEN Returns(<<"Path is not a directory: ">> \o RelStr(rel.rel), f)
        ELSE Returns(<<"Listing for ">> \o RelStr(rel.rel) \o <<":\n">> \o Listing(f, p), f)

tool_create_directory(f, cur, path) ==
    LET sp  == safe_path(f, cur, path)
        p   == sp.target
        mk  == Mkdir(f, p)
        rel == relative_to(p)
    IN  IF sp.raised THEN Raises(sp.exc, f)
        ELSE IF mk.raised THEN Raises(mk.exc, f)
        ELSE IF rel.raised THEN Raises(rel.exc, mk.fs)
        ELSE Returns(<<"Created directory: ">> \o RelStr(rel.rel), mk.fs)

\* agent.py:106-108: open(mode) and write; the stored text afterwards
\* the file opened in mode "w" whatever append says
WrittenText_Overwrites(f, p, content, append) == content

WrittenText(f, p, content, append) ==
    IF append /\ IsFile(f, p) THEN f[p].text \o content ELSE content

tool_write_file(f, cur, path, content, append) ==
    LET sp  == safe_path(f, cur, path)
        p   == sp.target
        mk  == Mkdir(f, Parent(p))
        rel == relative_to(p)
        wr  == Put(mk.fs, p, FileNode(WrittenText(mk.fs, p, content, append)))
    IN  IF sp.raised THEN Raises(sp.exc, f)
        ELSE IF mk.raised THEN Raises(mk.exc, f)
        ELSE IF IsDir(mk.fs, p)
             THEN Raises(<<"[Errno 21] Is a directory: '">> \o PathStr(p) \o <<"'">>, mk.fs)
        ELSE IF rel.raised THEN Raises(rel.exc, wr)
        ELSE Returns(<<IF append THEN "Appended to" ELSE "Wrote file", ": ">>
                       \o RelStr(rel.rel)
                       \o <<" (length=", ToString(Len(content)), " characters)">>, wr)

\* A stored byte that is not valid UTF-8
BADBYTE == "<ff>"

\* What reading in text mode makes of the stored characters (universal
\* newlines): "\r\n" and a lone "\r" both become "\n".
UniversalNewlines(stored) ==
    LET marked == [i \in 1..Len(stored) |->
                      <<IF stored[i] = "\r" THEN "\n" ELSE stored[i],
                        IF i > 1 /\ stored[i] = "\n" /\ stored[i - 1] = "\r"
                        THEN "drop" ELSE "keep">>]
        kept   == SelectSeq(marked, LAMBDA m : m[2] = "keep")
    IN  [i \in 1..Len(kept) |-> kept[i][1]]

\* agent.py:128
READ_MAX_LEN == 4000

TRUNCATED == "\n...[truncated]..."

\* the limit compared with >= instead of >
ReadResult_OffByOne(text, rel) ==
    IF Len(text) >= READ_MAX_LEN
    THEN <<"File content (truncated to ", ToString(READ_MAX_LEN), " characters):\n">>
         \o Prefix(text, READ_MAX_LEN) \o <<TRUNCATED>>
    ELSE <<"File content of ">> \o RelStr(rel) \o <<":\n">> \o text

\* agent.py:127-136: the result for the decoded text of the file at rel
ReadResult(text, rel) ==
    IF Len(text) > READ_MAX_LEN
    THEN <<"File content (truncated to ", ToString(READ_MAX_LEN), " characters):\n">>
         \o Prefix(text, READ_MAX_LEN) \o <<TRUNCATED>>
    ELSE <<"File content of ">> \o RelStr(rel) \o <<":\n">> \o text

tool_read_file(f, cur, path) ==
    LET sp   == safe_path(f, cur, path)
        p    == sp.target
        rel  == relative_to(p)
        text == UniversalNewlines(f[p].text)
    IN  IF sp.raised THEN Raises(sp.exc, f)
        ELSE IF ~IsFile(f, p)
             THEN IF rel.raised THEN Raises(rel.exc, f)
                  ELSE Returns(<<"File does not exist: ">> \o RelStr(rel.rel), f)
        ELSE IF \E i \in 1..Len(f[p].text) : f[p].text[i] = BADBYTE
             THEN IF rel.raised THEN Raises(rel.exc, f)
                  ELSE Returns(<<"File is not valid UTF-8 text: ">> \o RelStr(rel.rel), f)
        ELSE IF Len(text) <= READ_MAX_LEN /\ rel.raised THEN Raises(rel.exc, f)
        ELSE Returns(ReadResult(text, rel.rel), f)

-----------------------------------------------------------------------------
(* run_command (agent.py:139-179).  What the shell does with the command   *)
(* line is the host's answer: an outcome [timeout, stdout, stderr,         *)
(* returncode, fs].                                                        *)

\* agent.py:171
RUN_MAX_LEN == 6000

STDOUT_LABEL == <<"[", "S", "T", "D", "O", "U", "T", "]", "\n">>

STDERR_LABEL == <<"\n", "[", "S", "T", "D", "E", "R", "R", "]", "\n">>

NO_OUTPUT == <<"(", "n", "o", " ", "o", "u", "t", "p", "u", "t", ")">>

TRUNCATED_CHARS ==
    <<"\n", ".", ".", ".", "[", "t", "r", "u", "n", "c", "a", "t", "e", "d", "]", ".", ".", ".">>

\* agent.py:158-168: the labelled sections, or "(no output)"
Combined(out, err) ==
    LET both == (IF out # <<>> THEN STDOUT_LABEL \o out ELSE <<>>)
                \o (IF err # <<>> THEN STDERR_LABEL \o err ELSE <<>>)
    IN  IF \A i \in 1..Len(both) : both[i] \in Whitespace THEN NO_OUTPUT ELSE both

\* the output cut one character early
TruncateOutput_OffByOne(combined) ==
    IF Len(combined) > RUN_MAX_LEN
    THEN Prefix(combined, RUN_MAX_LEN - 1) \o TRUNCATED_CHARS
    ELSE combined

\* agent.py:170-173
TruncateOutput(combined) ==
    IF Len(combined) > RUN_MAX_LEN
    THEN Prefix(combined, RUN_MAX_LEN) \o TRUNCATED_CHARS
    ELSE combined

\* agent.py:156: the result on the timeout path
TimeoutResult(rel) ==
    <<"Command timed out after 60 seconds in ">> \o RelStr(rel) \o <<".">>

\* agent.py:175-179: the result when the command ended in time
CommandResult(rel, command, returncode, out, err) ==
    <<"Command (cwd=">> \o RelStr(rel) \o <<"): ">> \o command
    \o <<"\n", "Exit code: ", ToString(returncode), "\n\n">>
    \o TruncateOutput(Combined(out, err))

tool_run_command(f, cur, command, outcome) ==
    LET cwd == get_current_abs_dir(f, cur)
        rel == relative_to(cwd)
    IN  IF ~IsDir(f, cwd)
        THEN Raises(<<"[Errno 2] No such file or directory: '">> \o PathStr(cwd) \o <<"'">>, f)
        ELSE IF rel.raised THEN Raises(rel.exc, outcome.fs)
        ELSE IF outcome.timeout THEN Returns(TimeoutResult(rel.rel), outcome.fs)
        ELSE Returns(CommandResult(rel.rel, command, outcome.returncode,
                                   outcome.stdout, outcome.stderr), outcome.fs)

Outcome(rc, out, err, f) ==
    [timeout |-> FALSE, stdout |-> out, stderr |-> err, returncode |-> rc, fs |-> f]

TimedOut(f) ==
    [timeout |-> TRUE, stdout |-> <<>>, stderr |-> <<>>, returncode |-> 0, fs |-> f]

\* The command lines the model issues, and what the shell started in cwd
\* does for each (subprocess.run, agent.py:147-154).
CMD_TRUE == <<"true">>

CMD_ECHO == <<"echo hi">>

CMD_FAIL == <<"echo hi; ls nope">>

CMD_SLEEP == <<"sleep 70">>

CMD_CD == <<"cd ..">>

CMD_RMCWD == <<"rm -rf \"$PWD\"">>

CMD_LINKCWD == <<"d=$PWD; cd / && rmdir \"$d\" && ln -s / \"$d\"">>

\* n times the character c
Fill(c, n) == [i \in 1..n |-> c]

\* a command that writes n characters to stdout, m to stderr, and exits rc
CMD_EMIT(n, m, rc) ==
    <<"head -c ", ToString(n), " /dev/zero | tr '\\0' o; head -c ", ToString(m),
      " /dev/zero | tr '\\0' e >&2; exit ", ToString(rc)>>

\* how far around a limit the lengths of the inputs go
Slack == 1

Near(n) == (n - Slack)..(n + Slack)

ExitCodes == {0, 2}

\* the <<n, m, rc>> of the CMD_EMIT commands issued: output that is empty,
\* short, and around RUN_MAX_LEN once the labels (9 and 10 characters) are on
EmitRuns ==
    ( {<<n, 0>> : n \in {0, 1} \cup Near(RUN_MAX_LEN - 9)}
      \cup {<<0, m>> : m \in {1} \cup Near(RUN_MAX_LEN - 10)}
      \cup {<<1, m>> : m \in {1} \cup Near(RUN_MAX_LEN - 20)}
      \cup {<<RUN_MAX_LEN, RUN_MAX_LEN>>} ) \X ExitCodes

IsEmit(command, run) == command = CMD_EMIT(run[1][1], run[1][2], run[2])

Shell(f, cwd, command) ==
    CASE command = CMD_ECHO  -> Outcome(0, <<"h", "i", "\n">>, <<>>, f)
      [] command = CMD_FAIL  -> Outcome(2, <<"h", "i", "\n">>, <<"l", "s", ":", "\n">>, f)
      [] command = CMD_SLEEP -> TimedOut(f)
      [] command = CMD_RMCWD -> Outcome(0, <<>>, <<>>, RemoveTree(f, cwd))
      [] command = CMD_LINKCWD ->
            IF Children(f, cwd) = {}
            THEN Outcome(0, <<>>, <<>>, Put(f, cwd, LinkNode(<<>>)))
            ELSE Outcome(1, <<>>, <<"r", "m", "d", "i", "r", ":", "\n">>, f)
      [] \E run \in EmitRuns : IsEmit(command, run) ->
            LET run == CHOOSE r \in EmitRuns : IsEmit(command, r)
            IN  Outcome(run[2], Fill("o", run[1][1]), Fill("e", run[1][2]), f)
      [] OTHER -> Outcome(0, <<>>, <<>>, f)

-----------------------------------------------------------------------------
(* The cd emulation (agent.py:364-433).                                    *)

ROOT_MESSAGE == <<"Current directory: / (workspace root)">>

\* agent.py:384-386: one pair of matching surrounding quotes goes
StripQuotes(s) ==
    IF Len(s) >= 2 /\ s[1] = s[Len(s)] /\ s[1] \in {"'", "\""}
    THEN Strip(SubSeq(s, 2, Len(s) - 1))
    ELSE s

\* agent.py:388-393: the candidate directory of a non-empty argument
Candidate(f, cur, arg) ==
    IF StartsWith(arg, <<"/">>)
    THEN Resolve(f, PathParts(arg))
    ELSE Resolve(f, get_current_abs_dir(f, cur) \o PathParts(arg))

\* cd without an argument that stays where it is
CdHome_Stays(cur) == cur

\* agent.py:380-382: where cd without an argument goes
CdHome(cur) == <<>>

\* agent.py:404-417: the candidate as the messages show it
Shown(candidate) ==
    IF relative_to(candidate).raised THEN PathStr(candidate)
    ELSE RelStr(relative_to(candidate).rel)

\* change_directory(new_path): [raised, exc, cur, out], cur the CURRENT_DIR
\* it leaves and out the message it returns
change_directory(f, cur, new_path) ==
    LET arg       == StripQuotes(Strip(new_path))
        candidate == Candidate(f, cur, arg)
        rel       == relative_to(candidate)
        Stay(out) == [raised |-> FALSE, exc |-> <<>>, cur |-> cur, out |-> out]
    IN  IF Strip(new_path) = <<>>
        THEN [raised |-> FALSE, exc |-> <<>>, cur |-> CdHome(cur), out |-> ROOT_MESSAGE]
        ELSE IF candidate = WORKSPACE
        THEN [raised |-> FALSE, exc |-> <<>>, cur |-> <<>>, out |-> ROOT_MESSAGE]
        ELSE IF ~InWorkspace(candidate)
        THEN Stay(<<"Refusing to cd outside workspace root: ">> \o PathStr(candidate))
        ELSE IF ~Exists(f, candidate)
        THEN Stay(<<"Directory does not exist: ">> \o Shown(candidate))
        ELSE IF ~IsDir(f, candidate)
        THEN Stay(<<"Not a directory: ">> \o Shown(candidate))
        ELSE IF rel.raised
        THEN [raised |-> TRUE, exc |-> rel.exc, cur |-> cur, out |-> <<>>]
        ELSE [raised |-> FALSE, exc |-> <<>>, cur |-> rel.rel,
              out |-> <<"Current directory: /">> \o RelStr(rel.rel)]

\* format_current_dir_for_model()
format_current_dir_for_model(cur) ==
    IF cur = <<>> THEN <<"/ (workspace root)">> ELSE <<"/">> \o RelStr(cur)

-----------------------------------------------------------------------------
(* Tool calls and their dispatch (agent.py:182-188, 482-520).              *)
(*                                                                         *)
(* The argument string of a call is kept as what json.loads makes of it:   *)
(* kind "empty" is the empty string, "invalid" a string that is not JSON,  *)
(* "array" JSON that is not an object, "object" a JSON object obj, "deep"  *)
(* JSON nested deeper than the interpreter's recursion limit.              *)

EmptyArgs == [kind |-> "empty", obj |-> <<>>]

InvalidArgs == [kind |-> "invalid", obj |-> <<>>]

ArrayArgs == [kind |-> "array", obj |-> <<>>]

ObjectArgs(o) == [kind |-> "object", obj |-> o]

DeepArgs == [kind |-> "deep", obj |-> <<>>]

\* agent.py:486-489: json.loads(args_str) if args_str else {}
\* [raised, decode, exc, mapping, obj]: decode says the exception is a
\* json.JSONDecodeError (a RecursionError is not one)
json_loads(args_str) ==
    CASE args_str.kind = "invalid" ->
            [raised |-> TRUE, decode |-> TRUE,
             exc |-> <<"Expecting value: line 1 column 1 (char 0)">>,
             mapping |-> FALSE, obj |-> <<>>]
      [] args_str.kind = "deep" ->
            [raised |-> TRUE, decode |-> FALSE,
             exc |-> <<"maximum recursion depth exceeded while decoding a JSON array from a unicode string">>,
             mapping |-> FALSE, obj |-> <<>>]
      [] OTHER ->
            [raised |-> FALSE, decode |-> FALSE, exc |-> <<>>,
             mapping |-> args_str.kind # "array", obj |-> args_str.obj]

LIST_DIRECTORY == <<"list_directory">>

CREATE_DIRECTORY == <<"create_directory">>

WRITE_FILE == <<"write_file">>

READ_FILE == <<"read_file">>

RUN_COMMAND == <<"run_command">>

\* agent.py:182-188
TOOL_IMPLEMENTATIONS ==
    {LIST_DIRECTORY, CREATE_DIRECTORY, WRITE_FILE, READ_FILE, RUN_COMMAND}

\* The parameters of each implementation, and those without a default
Params(tool_name) ==
    CASE tool_name = WRITE_FILE  -> {"path", "content", "append"}
      [] tool_name = RUN_COMMAND -> {"command"}
      [] OTHER -> {"path"}

Required(tool_name) ==
    CASE tool_name = LIST_DIRECTORY -> {}
      [] tool_name = WRITE_FILE     -> {"path", "content"}
      [] tool_name = RUN_COMMAND    -> {"command"}
      [] OTHER -> {"path"}

\* agent.py:496: tool_func(**args)
CallTool(f, cur, tool_name, args) ==
    IF ~args.mapping
    THEN Raises(<<"argument after ** must be a mapping, not list">>, f)
    ELSE IF ~(DOMAIN args.obj \subseteq Params(tool_name))
    THEN Raises(tool_name \o <<"() got an unexpected keyword argument">>, f)
    ELSE IF ~(Required(tool_name) \subseteq DOMAIN args.obj)
    THEN Raises(tool_name \o <<"() missing required positional argument">>, f)
    ELSE CASE tool_name = LIST_DIRECTORY ->
                tool_list_directory(f, cur,
                    IF "path" \in DOMAIN args.obj THEN args.obj.path ELSE <<".">>)
           [] tool_name = CREATE_DIRECTORY ->
                tool_create_directory(f, cur, args.obj.path)
           [] tool_name = WRITE_FILE ->
                tool_write_file(f, cur, args.obj.path, args.obj.content,
                    IF "append" \in DOMAIN args.obj THEN args.obj.append ELSE FALSE)
           [] tool_name = READ_FILE ->
                tool_read_file(f, cur, args.obj.path)
           [] tool_name = RUN_COMMAND ->
                tool_run_command(f, cur, args.obj.command,
                    Shell(f, get_current_abs_dir(f, cur), args.obj.command))

\* What one pass of the for loop comes to: a tool result, or an exception
\* that leaves run_agent_turn.
Result(text, f, ran) ==
    [raised |-> FALSE, exc |-> <<>>, tool_result |-> text, fs |-> f, ran |-> ran]

Uncaught(text, f, ran) ==
    [raised |-> TRUE, exc |-> text, tool_result |-> <<>>, fs |-> f, ran |-> ran]

\* agent.py:495-498: the result of an implementation that was executed
Executed(tool_name, done) ==
    IF done.raised
    THEN Result(<<"Error while running tool '">> \o tool_name \o <<"': ">> \o done.exc,
                done.fs, tool_name)
    ELSE Result(done.result, done.fs, tool_name)

\* agent.py:491-493: the text for a name that is not registered
UnknownTool(tool_name) == <<"Error: unknown tool '">> \o tool_name \o <<"'.">>

\* the dispatch without the lookup's "if not tool_func": None is called
DispatchParsed_NoLookup(f, cur, tool_name, parsed) ==
    IF parsed.raised /\ parsed.decode
    THEN Result(<<"Error: could not parse arguments for tool '">>
                \o tool_name \o <<"': ">> \o parsed.exc, f, <<>>)
    ELSE IF parsed.raised THEN Uncaught(parsed.exc, f, <<>>)
    ELSE IF tool_name \notin TOOL_IMPLEMENTATIONS
    THEN Executed(tool_name, Raises(<<"'NoneType' object is not callable">>, f))
    ELSE Executed(tool_name, CallTool(f, cur, tool_name, parsed))

\* agent.py:486-498: the call once json.loads has answered
DispatchParsed(f, cur, tool_name, parsed) ==
    IF parsed.raised /\ parsed.decode
    THEN Result(<<"Error: could not parse arguments for tool '">>
                \o tool_name \o <<"': ">> \o parsed.exc, f, <<>>)
    ELSE IF parsed.raised THEN Uncaught(parsed.exc, f, <<>>)
    ELSE IF tool_name \notin TOOL_IMPLEMENTATIONS
    THEN Result(UnknownTool(tool_name), f, <<>>)
    ELSE Executed(tool_name, CallTool(f, cur, tool_name, parsed))

\* agent.py:483-498: one tool call: [raised, exc, tool_result, fs, ran], ran
\* the name of the implementation that was executed (<<>> when none was)
Dispatch(f, cur, tool_call) ==
    DispatchParsed(f, cur, tool_call.name, json_loads(tool_call.arguments))

-----------------------------------------------------------------------------
(* Messages (agent.py:449-461, 476-520).                                   *)

\* agent.py:295-358
SYSTEM_PROMPT == <<"SYSTEM_PROMPT">>

Message(role, content) ==
    [role |-> role, content |-> content, tool_call_id |-> 0, name |-> <<>>,
     tool_calls |-> <<>>]

\* agent.py:451-459
CwdNote(cur) ==
    <<"Current workspace directory (like your shell cwd) is: ">>
    \o format_current_dir_for_model(cur)
    \o <<". Interpret unqualified/relative paths and create new files/projects under this directory unless the user gives an explicit path from the workspace root.">>

\* run_agent_turn without the note on the current directory
InitialMessages_NoNote(cur, input) ==
    <<Message("system", SYSTEM_PROMPT), Message("user", input)>>

\* agent.py:449-461
InitialMessages(cur, input) ==
    <<Message("system", SYSTEM_PROMPT), Message("system", CwdNote(cur)),
      Message("user", input)>>

\* agent.py:476-480
AssistantMessage(content) ==
    [role |-> "assistant", content |-> content, tool_call_id |-> 0, name |-> <<>>,
     tool_calls |-> <<>>]

\* agent.py:513-520
ToolMessage(tool_call, tool_result) ==
    [role |-> "tool", content |-> tool_result, tool_call_id |-> tool_call.id,
     name |-> tool_call.name, tool_calls |-> <<>>]

\* list.insert(-n, x)
InsertBeforeLast(list, n, x) ==
    LET at == Max(Len(list) - n, 0)
    IN  SubSeq(list, 1, at) \o <<x>> \o SubSeq(list, at + 1, Len(list))

-----------------------------------------------------------------------------
(* Inputs: the lines the user types, the tool calls the model asks for,    *)
(* the filesystems the process starts in.                                  *)

\* tool calls dispatched in one run of the process
MaxCalls == 2

InputLines ==
    { <<" ", " ">>, <<"Q", "u", "i", "t">>, <<"c", "d">>, <<"c", "d", " ", "a">>, <<"C", "D", " ", ".", ".">>, <<"c", "d", " ", ".", ".", "/", "w", "x">>, <<"c", "d", " ", "g">>, <<"c", "d", " ", "d">>,
      <<"c", "d", " ", "/", "h", "/", "w">>, <<"c", "d", " ", "'", "a", "'">>, <<"c", "d", "x", " ", "a">>, <<"h", "i">> }

\* the name and argument string of each call
ToolCallMenu ==
    << [name |-> LIST_DIRECTORY,   arguments |-> EmptyArgs],
       [name |-> CREATE_DIRECTORY, arguments |-> ObjectArgs([path |-> <<".", ".", "/", "w", "x">>])],
       [name |-> WRITE_FILE,
        arguments |-> ObjectArgs([path |-> <<"g">>, content |-> <<"x", "\r">>])],
       [name |-> WRITE_FILE,
        arguments |-> ObjectArgs([path |-> <<"/", "a", "/", "f">>, content |-> <<"y">>])],
       [name |-> WRITE_FILE,
        arguments |-> ObjectArgs([path |-> <<"g">>, content |-> <<"y">>, append |-> TRUE])],
       [name |-> WRITE_FILE,   arguments |-> ObjectArgs([path |-> <<"g">>])],
       [name |-> READ_FILE,    arguments |-> ObjectArgs([path |-> <<"g">>])],
       [name |-> READ_FILE,    arguments |-> ObjectArgs([path |-> <<".", ".", "/", ".", ".">>])],
       [name |-> READ_FILE,    arguments |-> ArrayArgs],
       [name |-> READ_FILE,    arguments |-> DeepArgs],
       [name |-> <<"delete_file">>, arguments |-> ObjectArgs([path |-> <<"g">>])],
       [name |-> <<"delete_file">>, arguments |-> InvalidArgs],
       [name |-> RUN_COMMAND,  arguments |-> ObjectArgs([command |-> CMD_SLEEP])],
       [name |-> RUN_COMMAND,  arguments |-> ObjectArgs([command |-> CMD_CD])],
       [name |-> RUN_COMMAND,  arguments |-> ObjectArgs([command |-> CMD_LINKCWD])] >>

\* msg.tool_calls for the calls picked, with the ids the service gives them
WithIds(picked, request) ==
    [i \in 1..Len(picked) |->
        [id |-> 10 * request + i, name |-> ToolCallMenu[picked[i]].name,
         arguments |-> ToolCallMenu[picked[i]].arguments]]

Picks == UNION {[1..n -> 1..Len(ToolCallMenu)] : n \in 1..MaxCalls}

\* what msg.content can be
Contents == {None, <<"done">>}

NoCall == [id |-> 0, name |-> <<>>, arguments |-> EmptyArgs]

DIR_A == WORKSPACE \o <<<<"a">>>>

FILE_G == WORKSPACE \o <<<<"g">>>>

StartFs ==
    [p \in {<<>>, BASE_DIR, WORKSPACE, DIR_A, FILE_G} |->
        IF p = FILE_G THEN FileNode(<<"x">>) ELSE DirNode]

InitFs == {StartFs, Put(StartFs, SIBLING, DirNode)}

-----------------------------------------------------------------------------
(* The process: main's loop (agent.py:540-570) and run_agent_turn          *)
(* (agent.py:439-528).                                                     *)

\* what a step did: the line or cd argument it took, the directory a cd
\* started from, the tool call it dispatched and what came of it
Did(op, arg, tool_call, result, ran, raised) ==
    [op |-> op, arg |-> arg, from |-> <<>>, call |-> tool_call, result |-> result,
     ran |-> ran, raised |-> raised]

Init ==
    /\ CURRENT_DIR = <<>>
    /\ fs \in InitFs
    /\ pc = "prompt"
    /\ messages = <<>>
    /\ tool_calls = <<>>
    /\ assistant_msg = AssistantMessage(None)
    /\ printed = <<"Type 'exit' to quit.">>
    /\ last = Did("start", <<>>, NoCall, <<>>, <<>>, FALSE)
    /\ requests = 0
    /\ calls = 0
    /\ BlogIdle

\* str.split(maxsplit=1) of a stripped line
SplitFirst(line) ==
    LET at == {i \in 1..Len(line) : line[i] \in Whitespace}
    IN  IF at = {} THEN <<line>>
        ELSE LET k == CHOOSE i \in at : \A j \in at : i <= j
             IN  <<Prefix(line, k - 1), LStrip(Drop(line, k), Whitespace)>>

\* main taking for navigation only "cd" and "cd <path>"
Branch_CdWord(line) ==
    IF line = <<>> THEN "blank"
    ELSE IF Lower(line) \in {<<"e", "x", "i", "t">>, <<"q", "u", "i", "t">>} THEN "exit"
    ELSE IF Lower(SplitFirst(line)[1]) = <<"c", "d">> THEN "cd"
    ELSE "turn"

\* agent.py:547-561: which branch takes the stripped line
Branch(line) ==
    IF line = <<>> THEN "blank"
    ELSE IF Lower(line) \in {<<"e", "x", "i", "t">>, <<"q", "u", "i", "t">>} THEN "exit"
    ELSE IF StartsWith(Lower(line), <<"c", "d">>) THEN "cd"
    ELSE "turn"

\* agent.py:557-558
PathArg(line) == IF Len(SplitFirst(line)) > 1 THEN SplitFirst(line)[2] ELSE <<>>

\* agent.py:542-545: input() ends with EOFError or KeyboardInterrupt
EndOfInput ==
    /\ pc = "prompt"
    /\ pc' = "exited"
    /\ printed' = <<"\nExiting.">>
    /\ last' = Did("eof", <<>>, NoCall, <<>>, <<>>, FALSE)
    /\ UNCHANGED <<CURRENT_DIR, fs, messages, tool_calls, assistant_msg, requests, calls>>
    /\ UNCHANGED blog_vars

\* agent.py:542-568: one line read and taken by its branch
ReadLine ==
    /\ pc = "prompt"
    /\ \E raw \in InputLines :
        LET line == Strip(raw)
            cd   == change_directory(fs, CURRENT_DIR, PathArg(line))
        IN  CASE Branch(line) = "blank" ->
                      /\ last' = Did("blank", line, NoCall, <<>>, <<>>, FALSE)
                      /\ UNCHANGED <<CURRENT_DIR, pc, messages, printed, requests>>
                 [] Branch(line) = "exit" ->
                      /\ pc' = "exited"
                      /\ printed' = <<"Goodbye.">>
                      /\ last' = Did("exit", line, NoCall, <<>>, <<>>, FALSE)
                      /\ UNCHANGED <<CURRENT_DIR, messages, requests>>
                 [] Branch(line) = "cd" ->
                      /\ CURRENT_DIR' = cd.cur
                      /\ pc' = IF cd.raised THEN "crashed" ELSE "prompt"
                      /\ printed' = IF cd.raised THEN <<"ValueError: ">> \o cd.exc
                                    ELSE <<"\nAgent:\n">> \o cd.out \o <<"\n">>
                      /\ last' = [Did("cd", PathArg(line), NoCall, cd.out, <<>>, cd.raised)
                                    EXCEPT !.from = CURRENT_DIR]
                      /\ UNCHANGED <<messages, requests>>
                 [] OTHER ->
                      /\ pc' = "request"
                      /\ messages' = InitialMessages(CURRENT_DIR, line)
                      /\ printed' = <<"Agent: thinking...">>
                      /\ requests' = 0
                      /\ last' = Did("turn", line, NoCall, <<>>, <<>>, FALSE)
                      /\ UNCHANGED CURRENT_DIR
    /\ UNCHANGED <<fs, tool_calls, assistant_msg, calls>>
    /\ UNCHANGED blog_vars

\* main without the try/except around run_agent_turn
TurnFailed_Uncaught(exc) == [pc |-> "crashed", printed |-> <<"Traceback: ">> \o exc]

\* agent.py:564-568: an exception leaves run_agent_turn and main catches it
TurnFailed(exc) == [pc |-> "prompt", printed |-> <<"Agent error: ">> \o exc]

\* agent.py:464-469 raising
ClientFails ==
    /\ pc = "request"
    /\ pc' = TurnFailed(<<"Connection error.">>).pc
    /\ printed' = TurnFailed(<<"Connection error.">>).printed
    /\ requests' = requests + 1
    /\ messages' = <<>>
    /\ last' = Did("error", <<>>, NoCall, <<"Connection error.">>, <<>>, TRUE)
    /\ UNCHANGED <<CURRENT_DIR, fs, tool_calls, assistant_msg, calls>>
    /\ UNCHANGED blog_vars

\* run_agent_turn returning msg.content as it came
final_content_AsSent(content) == content

\* agent.py:527: msg.content or ""
final_content(content) == IF content \in {None, <<>>} THEN <<>> ELSE content

\* agent.py:464-471, 526-528 and 570: a response without tool calls
FinalAnswer ==
    /\ pc = "request"
    /\ \E content \in Contents :
        /\ printed' = <<"\nAgent:\n">> \o final_content(content) \o <<"\n">>
        /\ last' = Did("final", <<>>, NoCall, final_content(content), <<>>, FALSE)
    /\ pc' = "prompt"
    /\ requests' = requests + 1
    /\ messages' = <<>>
    /\ UNCHANGED <<CURRENT_DIR, fs, tool_calls, assistant_msg, calls>>
    /\ UNCHANGED blog_vars

\* agent.py:464-480: a response with tool calls
ToolCallsAnswer ==
    /\ pc = "request"
    /\ \E picked \in Picks :
        /\ Len(picked) <= MaxCalls - calls
        /\ tool_calls' = WithIds(picked, requests + 1)
        /\ assistant_msg' = AssistantMessage(None)
    /\ pc' = "dispatch"
    /\ requests' = requests + 1
    /\ last' = Did("calls", <<>>, NoCall, <<>>, <<>>, FALSE)
    /\ UNCHANGED <<CURRENT_DIR, fs, messages, printed, calls>>
    /\ UNCHANGED blog_vars

\* agent.py:501-510
Recorded(tool_call) ==
    [id |-> tool_call.id, name |-> tool_call.name, arguments |-> tool_call.arguments]

\* agent.py:500-524: the call is recorded on the assistant message and its
\* result appended; after the last call of the response the assistant
\* message goes in before the tool messages
Record(tool_call, done) ==
    LET asst == [assistant_msg EXCEPT !.tool_calls = Append(@, Recorded(tool_call))]
        msgs == Append(messages, ToolMessage(tool_call, done.tool_result))
    IN  /\ fs' = done.fs
        /\ IF done.raised
           THEN /\ last' = Did("error", <<>>, tool_call, done.exc, done.ran, TRUE)
                /\ pc' = TurnFailed(done.exc).pc
                /\ printed' = TurnFailed(done.exc).printed
                /\ messages' = <<>>
                /\ assistant_msg' = AssistantMessage(None)
                /\ tool_calls' = <<>>
           ELSE /\ last' = Did("call", <<>>, tool_call, done.tool_result, done.ran, FALSE)
                /\ UNCHANGED printed
                /\ IF Len(asst.tool_calls) = Len(tool_calls)
                   THEN /\ messages' = InsertBeforeLast(msgs, Len(tool_calls), asst)
                        /\ assistant_msg' = AssistantMessage(None)
                        /\ tool_calls' = <<>>
                        /\ pc' = "request"
                   ELSE /\ messages' = msgs
                        /\ assistant_msg' = asst
                        /\ UNCHANGED <<tool_calls, pc>>

\* the for loop if a cd run by run_command moved the agent's directory as
\* it moves the shell's
DispatchCall_ShellCdFollowed ==
    /\ pc = "dispatch"
    /\ Record(tool_calls[Len(assistant_msg.tool_calls) + 1],
              Dispatch(fs, CURRENT_DIR, tool_calls[Len(assistant_msg.tool_calls) + 1]))
    /\ calls' = calls + 1
    /\ CURRENT_DIR' =
          IF tool_calls[Len(assistant_msg.tool_calls) + 1].arguments
                = ObjectArgs([command |-> CMD_CD])
          THEN Parent(CURRENT_DIR) ELSE CURRENT_DIR
    /\ UNCHANGED requests
    /\ UNCHANGED blog_vars

\* agent.py:482-524: one pass of the for loop
DispatchCall ==
    /\ pc = "dispatch"
    /\ Record(tool_calls[Len(assistant_msg.tool_calls) + 1],
              Dispatch(fs, CURRENT_DIR, tool_calls[Len(assistant_msg.tool_calls) + 1]))
    /\ calls' = calls + 1
    /\ UNCHANGED <<CURRENT_DIR, requests>>
    /\ UNCHANGED blog_vars

Next ==
    \/ EndOfInput
    \/ ReadLine
    \/ ClientFails
    \/ FinalAnswer
    \/ ToolCallsAnswer
    \/ DispatchCall

Spec == Init /\ [][Next]_vars

\* the service answers every request or the client raises (agent.py:464-469),
\* and every tool call comes back (agent.py:482-520; run_command has its
\* timeout). The steps that count a request are those of ClientFails,
\* FinalAnswer and ToolCallsAnswer, the steps that count a call those of
\* DispatchCall.
SpecLive ==
    /\ Spec
    /\ WF_requests(pc = "request" /\ requests' = requests + 1)
    /\ WF_calls(pc = "dispatch" /\ calls' = calls + 1)

-----------------------------------------------------------------------------
(* The tools on texts and outputs around their limits: the turn "hi" has   *)
(* been read and the service has answered with one of the responses below. *)

TextKinds == {"plain", "crlf", "cr", "lf"}

\* a text of n characters: all "x", or with a "\r\n" in front, a "\r" at
\* the end, a "\n" in front
TextOf(n, kind) ==
    CASE n = 0 -> <<>>
      [] kind = "crlf" /\ n >= 2 -> <<"\r", "\n">> \o Fill("x", n - 2)
      [] kind \in {"cr", "crlf"} -> Fill("x", n - 1) \o <<"\r">>
      [] kind = "lf" -> <<"\n">> \o Fill("x", n - 1)
      [] OTHER -> Fill("x", n)

TextLengths == {0, 1, 2} \cup Near(READ_MAX_LEN) \cup {READ_MAX_LEN + 2, READ_MAX_LEN + 1000}

Texts == {TextOf(n, kind) : n \in TextLengths, kind \in TextKinds}

AppendTexts == {<<>>, <<"y">>, <<"x", "\r">>}

WritePaths == {<<"g">>, <<"n", "/", "f">>}

ScriptedCommands ==
    {CMD_TRUE, CMD_ECHO, CMD_FAIL, CMD_SLEEP, CMD_CD, CMD_RMCWD, CMD_LINKCWD}
    \cup {CMD_EMIT(run[1][1], run[1][2], run[2]) : run \in EmitRuns}

WriteCall(id, path, content) ==
    [id |-> id, name |-> WRITE_FILE,
     arguments |-> ObjectArgs([path |-> path, content |-> content])]

AppendCall(id, path, content) ==
    [id |-> id, name |-> WRITE_FILE,
     arguments |-> ObjectArgs([path |-> path, content |-> content, append |-> TRUE])]

ReadCall(id, path) ==
    [id |-> id, name |-> READ_FILE, arguments |-> ObjectArgs([path |-> path])]

CommandCall(id, command) ==
    [id |-> id, name |-> RUN_COMMAND, arguments |-> ObjectArgs([command |-> command])]

ListPaths ==
    {<<"a">>, <<"g">>, <<"z", "z">>, <<".">>, <<"/">>, <<"/", "a", "/">>, <<"g", "/", "x">>, <<"n", "/", "d">>, <<" ", "a", " ">>,
     None, <<>>, <<" ", "\t">>, <<"\\", "a">>, <<" ", "/", "g">>, <<"/", "/", "a">>}

ListCall(id, path) ==
    [id |-> id, name |-> LIST_DIRECTORY, arguments |-> ObjectArgs([path |-> path])]

CreateDirCall(id, path) ==
    [id |-> id, name |-> CREATE_DIRECTORY, arguments |-> ObjectArgs([path |-> path])]

InitTools ==
    /\ CURRENT_DIR \in {<<>>, <<<<"a">>>>}
    /\ fs = StartFs
    /\ pc = "dispatch"
    /\ messages = InitialMessages(CURRENT_DIR, <<"h", "i">>)
    /\ \/ \E path \in WritePaths, content \in Texts :
             tool_calls = <<WriteCall(11, path, content), ReadCall(12, path)>>
       \/ \E path \in WritePaths, first \in AppendTexts, second \in AppendTexts :
             tool_calls = <<AppendCall(11, path, first), AppendCall(12, path, second)>>
       \/ \E command \in ScriptedCommands :
             tool_calls = <<CommandCall(11, command)>>
       \/ \E path \in ListPaths :
             \/ tool_calls = <<ListCall(11, path)>>
             \/ tool_calls = <<CreateDirCall(11, path), ListCall(12, path)>>
    /\ assistant_msg = AssistantMessage(None)
    /\ printed = <<"Agent: thinking...">>
    /\ last = Did("calls", <<>>, NoCall, <<>>, <<>>, FALSE)
    /\ requests = 1
    /\ calls = 0
    /\ BlogIdle

NextTools == DispatchCall

SpecTools == InitTools /\ [][NextTools]_vars

-----------------------------------------------------------------------------
(* The blog-api scaffold: the sync router (routers/posts.py) and the async *)
(* router (api/posts.py) over one Post table.  The table's definition      *)
(* (app/models/post.py) and the sync session (app/database.py) are not     *)
(* among the sources; the table is the spec's: rows of identifier, title   *)
(* and content, the identifier assigned by the store, no constraint on the *)
(* title (uniqueness is enforced "only in the sync-variant create path").  *)
(* On the SQLite store of core/config.py:8 a new identifier is one more    *)
(* than the largest in the table, or, with AUTOINCREMENT, one more than    *)
(* the largest ever assigned; autoinc says which.                          *)

\* requests taken in one run
MaxRequests == 4

Titles == {"t", "u"}

Bodies == {"c", "d"}

\* PostCreate payloads
Payloads == [title : Titles, content : Bodies]

Fields == {"title", "content"}

\* PostUpdate payloads: set holds the fields supplied explicitly (a field
\* left unset carries a value nothing reads)
Updates ==
    {post_update \in [set : SUBSET Fields, title : Titles, content : Bodies] :
        /\ "title" \notin post_update.set => post_update.title = "t"
        /\ "content" \notin post_update.set => post_update.content = "c"}

PostIds == 1..MaxRequests

Row(title, content) == [title |-> title, content |-> content]

\* the identifier the store gives the next row
NewId(table, top, never_twice) ==
    IF never_twice THEN top + 1
    ELSE IF DOMAIN table = {} THEN 1
    ELSE (CHOOSE i \in DOMAIN table : \A j \in DOMAIN table : i >= j) + 1

\* session.add(new_post); commit()
Inserted(table, id, row) ==
    [i \in DOMAIN table \cup {id} |-> IF i = id THEN row ELSE table[i]]

\* the lookup by title that finds nothing, whatever the table holds
TitleTaken_Never(table, title) == FALSE

\* routers/posts.py:13-14: a row with this title exists
TitleTaken(table, title) == \E i \in DOMAIN table : table[i].title = title

\* routers/posts.py:13-15: the first step of the sync create, in a session
\* of its own
SyncCreateLookup ==
    /\ served < MaxRequests
    /\ served' = served + 1
    /\ \E post \in Payloads :
          IF TitleTaken(posts, post.title)
          THEN /\ response' = Response(served', "sync", "create", 400, 0,
                                       post.title, post.content, 0)
               /\ UNCHANGED inflight
          ELSE /\ inflight' = inflight \cup {[n |-> served', title |-> post.title,
                                              content |-> post.content]}
               /\ UNCHANGED response
    /\ UNCHANGED <<posts, high, autoinc, removed>>
    /\ body' = NoUpdate
    /\ UNCHANGED agent_vars

\* routers/posts.py:16-20: the second step of the sync create
SyncCreateInsert ==
    /\ \E request \in inflight :
          /\ posts' = Inserted(posts, NewId(posts, high, autoinc),
                               Row(request.title, request.content))
          /\ high' = Max(high, NewId(posts, high, autoinc))
          /\ inflight' = inflight \ {request}
          /\ response' = Response(request.n, "sync", "create", 200,
                                  NewId(posts, high, autoinc),
                                  request.title, request.content, 0)
    /\ UNCHANGED <<autoinc, served, removed>>
    /\ body' = NoUpdate
    /\ UNCHANGED agent_vars

\* the answer of a get by id, 404 when the table has no such row
Found(n, variant, op, table, id) ==
    IF id \in DOMAIN table
    THEN Response(n, variant, op, 200, id, table[id].title, table[id].content, 0)
    ELSE Response(n, variant, op, 404, id, "", "", 0)

\* routers/posts.py:22-25: offset(skip).limit(limit).all(), as a count
SyncReadPosts ==
    /\ served < MaxRequests
    /\ served' = served + 1
    /\ \E skip \in {0, 1}, limit \in {1, 10} :
          response' = Response(served', "sync", "list", 200, 0, "", "",
                          Min(limit, Max(Cardinality(DOMAIN posts) - skip, 0)))
    /\ UNCHANGED <<posts, high, autoinc, inflight, removed>>
    /\ body' = NoUpdate
    /\ UNCHANGED agent_vars

\* routers/posts.py:27-32
SyncReadPost ==
    /\ served < MaxRequests
    /\ served' = served + 1
    /\ \E post_id \in PostIds :
          response' = Found(served', "sync", "get", posts, post_id)
    /\ UNCHANGED <<posts, high, autoinc, inflight, removed>>
    /\ body' = NoUpdate
    /\ UNCHANGED agent_vars

\* api/posts.py:12-18
AsyncCreatePost ==
    /\ served < MaxRequests
    /\ served' = served + 1
    /\ \E post \in Payloads :
          /\ posts' = Inserted(posts, NewId(posts, high, autoinc),
                               Row(post.title, post.content))
          /\ response' = Response(served', "async", "create", 200,
                                  NewId(posts, high, autoinc),
                                  post.title, post.content, 0)
    /\ high' = Max(high, NewId(posts, high, autoinc))
    /\ UNCHANGED <<autoinc, inflight, removed>>
    /\ body' = NoUpdate
    /\ UNCHANGED agent_vars

\* api/posts.py:20-24
AsyncReadPosts ==
    /\ served < MaxRequests
    /\ served' = served + 1
    /\ response' = Response(served', "async", "list", 200, 0, "", "",
                            Cardinality(DOMAIN posts))
    /\ UNCHANGED <<posts, high, autoinc, inflight, removed>>
    /\ body' = NoUpdate
    /\ UNCHANGED agent_vars

\* api/posts.py:26-31
AsyncReadPost ==
    /\ served < MaxRequests
    /\ served' = served + 1
    /\ \E post_id \in PostIds :
          response' = Found(served', "async", "get", posts, post_id)
    /\ UNCHANGED <<posts, high, autoinc, inflight, removed>>
    /\ body' = NoUpdate
    /\ UNCHANGED agent_vars

\* update_post setting every field of the payload, supplied or not
Updated_Whole(row, post_update) == Row(post_update.title, post_update.content)

\* api/posts.py:38-39: setattr for the fields of dict(exclude_unset=True)
Updated(row, post_update) ==
    Row(IF "title" \in post_update.set THEN post_update.title ELSE row.title,
        IF "content" \in post_update.set THEN post_update.content ELSE row.content)

\* api/posts.py:33-43
AsyncUpdatePost ==
    /\ served < MaxRequests
    /\ served' = served + 1
    /\ \E post_id \in PostIds, post_update \in Updates :
          /\ posts' = IF post_id \in DOMAIN posts
                      THEN [posts EXCEPT ![post_id] = Updated(@, post_update)]
                      ELSE posts
          /\ response' = Found(served', "async", "update", posts', post_id)
          /\ body' = post_update
    /\ UNCHANGED <<high, autoinc, inflight, removed>>
    /\ UNCHANGED agent_vars

\* a delete that commits nothing
Deleted_Keeps(table, id) == table

\* api/posts.py:50-51: session.delete(post); commit()
Deleted(table, id) == [i \in DOMAIN table \ {id} |-> table[i]]

\* api/posts.py:45-52
AsyncDeletePost ==
    /\ served < MaxRequests
    /\ served' = served + 1
    /\ \E post_id \in PostIds :
          IF post_id \in DOMAIN posts
          THEN /\ posts' = Deleted(posts, post_id)
               /\ removed' = removed \cup {post_id}
               /\ response' = Response(served', "async", "delete", 200, post_id, "", "", 0)
          ELSE /\ response' = Response(served', "async", "delete", 404, post_id, "", "", 0)
               /\ UNCHANGED <<posts, removed>>
    /\ UNCHANGED <<high, autoinc, inflight>>
    /\ body' = NoUpdate
    /\ UNCHANGED agent_vars

\* the agent at its prompt, the application started on an empty table
InitBlog ==
    /\ CURRENT_DIR = <<>>
    /\ fs = StartFs
    /\ pc = "prompt"
    /\ messages = <<>>
    /\ tool_calls = <<>>
    /\ assistant_msg = AssistantMessage(None)
    /\ printed = <<"Type 'exit' to quit.">>
    /\ last = Did("start", <<>>, NoCall, <<>>, <<>>, FALSE)
    /\ requests = 0
    /\ calls = 0
    /\ posts = <<>>
    /\ high = 0
    /\ autoinc \in BOOLEAN
    /\ inflight = {}
    /\ served = 0
    /\ removed = {}
    /\ response = Response(0, "", "", 0, 0, "", "", 0)
    /\ body = NoUpdate

NextBlog ==
    \/ SyncCreateLookup
    \/ SyncCreateInsert
    \/ SyncReadPosts
    \/ SyncReadPost
    \/ AsyncCreatePost
    \/ AsyncReadPosts
    \/ AsyncReadPost
    \/ AsyncUpdatePost
    \/ AsyncDeletePost

\* requests to both routers, one step at a time
SpecBlog == InitBlog /\ [][NextBlog]_vars

NextSync ==
    \/ SyncCreateLookup
    \/ SyncCreateInsert
    \/ SyncReadPosts
    \/ SyncReadPost

\* requests to the sync router only (the one app/main.py:26 mounts)
SpecSync == InitBlog /\ [][NextSync]_vars

-----------------------------------------------------------------------------
(* The claims.                                                             *)

\* the step just taken dispatched a tool call
Called == last.op = "call"

\* the call's argument string binds to the parameters of a tool that takes a
\* path, so the path reaches safe_path
PassesPath(tool_call) ==
    /\ tool_call.name \in {LIST_DIRECTORY, CREATE_DIRECTORY, WRITE_FILE, READ_FILE}
    /\ tool_call.arguments.kind = "object"
    /\ "path" \in DOMAIN tool_call.arguments.obj
    /\ DOMAIN tool_call.arguments.obj \subseteq Params(tool_call.name)
    /\ Required(tool_call.name) \subseteq DOMAIN tool_call.arguments.obj

\* where the path of the call leads from directory cur
Destination(f, cur, tool_call) ==
    SafeTarget(f, cur, NormalizePath(tool_call.arguments.obj.path))

PathEscapeText(tool_call, target) ==
    <<"Error while running tool '">> \o tool_call.name \o <<"': ">>
    \o <<"Refusing to access path outside workspace: ">> \o PathStr(target)

\* C1: a tool call whose path resolves to a place that is neither the
\* workspace root nor below it (a sibling whose name merely starts with the
\* workspace's included) gets the boundary violation as its result and
\* leaves the filesystem as it was.
C1_EscapeRejected ==
    [][(/\ pc = "dispatch"
        /\ last'.op = "call"
        /\ PassesPath(last'.call)
        /\ ~IsUnder(Destination(fs, CURRENT_DIR, last'.call), WORKSPACE))
       => (/\ fs' = fs
           /\ last'.result =
                PathEscapeText(last'.call, Destination(fs, CURRENT_DIR, last'.call)))]_vars

\* C2: in every reachable state the workspace root joined with CURRENT_DIR
\* canonicalizes to the workspace root or to a place below it.
C2_CurrentDirInside ==
    IsUnder(get_current_abs_dir(fs, CURRENT_DIR), WORKSPACE)

\* the reasons change_directory may give for refusing a candidate
Refusal(f, candidate) ==
    (IF ~IsUnder(candidate, WORKSPACE)
     THEN {"Refusing to cd outside workspace root: "} ELSE {})
    \cup (IF ~Exists(f, candidate) THEN {"Directory does not exist: "} ELSE {})
    \cup (IF Exists(f, candidate) /\ ~IsDir(f, candidate)
          THEN {"Not a directory: "} ELSE {})

\* C3: a cd whose candidate is outside the workspace, does not exist or is
\* not a directory leaves CURRENT_DIR as it was and returns, without
\* raising, a message that names the reason.
C3_CdRefusalReturns ==
    [][(/\ pc = "prompt"
        /\ last'.op = "cd"
        /\ Strip(last'.arg) # <<>>
        /\ Refusal(fs, Candidate(fs, CURRENT_DIR, StripQuotes(Strip(last'.arg)))) # {})
       => (/\ CURRENT_DIR' = CURRENT_DIR
           /\ ~last'.raised
           /\ pc' = "prompt"
           /\ last'.result # <<>>
           /\ last'.result[1] \in
                Refusal(fs, Candidate(fs, CURRENT_DIR, StripQuotes(Strip(last'.arg)))))]_vars

RelativePaths == { <<"g">>, <<"a", "/", "b">>, <<".", ".", "/", "w", "x">>, <<".">>, <<" ", "a", " ">>, <<"a", "\\", "b">> }

\* C4: after cd without an argument CURRENT_DIR is the workspace root, and a
\* relative path given to safe_path then resolves to the workspace root
\* joined with that path.
C4_CdHomeThenRelative ==
    (pc = "prompt" /\ last.op = "cd" /\ Strip(last.arg) = <<>>)
    => /\ CURRENT_DIR = <<>>
       /\ \A p \in RelativePaths :
            safe_path(fs, CURRENT_DIR, p).target
                = Resolve(fs, WORKSPACE \o PathParts(NormalizePath(p)))

\* a cd without an argument issued from below the workspace root
C4_Witness ==
    pc = "prompt" /\ last.op = "cd" /\ last.arg = <<>> /\ last.from # <<>>

\* the ids of the calls recorded on assistant messages so far in the turn
RecordedIds ==
    {assistant_msg.tool_calls[j].id : j \in 1..Len(assistant_msg.tool_calls)}
    \cup UNION {{messages[k].tool_calls[j].id : j \in 1..Len(messages[k].tool_calls)}
                : k \in 1..Len(messages)}

ResultsFor(id) ==
    {i \in 1..Len(messages) : messages[i].role = "tool" /\ messages[i].tool_call_id = id}

IsText(t) == t # None /\ t \in Seq(STRING)

\* C5: every tool call dispatched has exactly one tool message with its id
\* and a text content, whatever its name and arguments, and no exception
\* of parsing or dispatching a call leaves run_agent_turn (no turn fails
\* on a tool call).
C5_OneResultPerCall ==
    /\ \A id \in RecordedIds :
          /\ Cardinality(ResultsFor(id)) = 1
          /\ \A i \in ResultsFor(id) : IsText(messages[i].content)
    /\ \A i \in 1..Len(messages) :
          messages[i].role = "tool" => messages[i].tool_call_id \in RecordedIds
    /\ Called => pc \in {"dispatch", "request"} /\ IsText(last.result)
    /\ last.op = "error" => last.call.id = 0

SaysUnknownTool(text) == \E i \in 1..Len(text) : text[i] = "Error: unknown tool '"

\* the step just taken went through a tool call, whatever came of it
Dispatched == last.op \in {"call", "error"} /\ last.call.id # 0

\* C6 as claimed: a call that names an unregistered tool runs no
\* implementation, gets a result saying "unknown tool", and the turn goes on.
C6_UnknownToolAlways ==
    (Dispatched /\ last.call.name \notin TOOL_IMPLEMENTATIONS
                /\ last.call.arguments.kind # "deep")
    => /\ last.ran = <<>>
       /\ last.op = "call"
       /\ SaysUnknownTool(last.result)
       /\ pc \in {"dispatch", "request"}

\* C6 amended: a call that names an unregistered tool and whose arguments
\* parse as JSON runs no implementation, gets a result saying "unknown
\* tool", and the turn goes on to the next call or completion request.
C6_UnknownToolParsed ==
    (Dispatched /\ last.call.name \notin TOOL_IMPLEMENTATIONS
                /\ last.call.arguments.kind \in {"empty", "array", "object"})
    => /\ last.ran = <<>>
       /\ last.op = "call"
       /\ SaysUnknownTool(last.result)
       /\ pc \in {"dispatch", "request"}

\* the last call of a response named an unregistered tool, and the next
\* completion request is due
C6_Witness ==
    /\ Called
    /\ last.call.name = <<"delete_file">>
    /\ last.call.arguments.kind = "object"
    /\ pc = "request"

\* C7: a failure raised while a turn runs is printed after "Agent error: "
\* and the loop reads the next line; no step of a turn ends the process.
C7_TurnFailureCaught ==
    /\ last.op = "error" => pc = "prompt" /\ printed[1] = "Agent error: "
    /\ last.op \in {"turn", "calls", "call", "final", "error"}
          => pc \notin {"exited", "crashed"}

\* the client failed on the request that followed a round of tool calls
C7_Witness ==
    last.op = "error" /\ pc = "prompt" /\ requests = 2

\* the step wrote or appended to a file and said so
Wrote(step, how) ==
    /\ step.op = "call"
    /\ step.call.name = WRITE_FILE
    /\ PassesPath(step.call)
    /\ step.result[1] = how

Reads(step) ==
    step.op = "call" /\ step.call.name = READ_FILE /\ PassesPath(step.call)

SamePath(a, b) == a.call.arguments.obj.path = b.call.arguments.obj.path

\* what a read result carries after its header line
HeaderEnds(result) ==
    {i \in 1..Len(result) : result[i] \in {":\n", " characters):\n"}}

BodyOf(result) ==
    IF HeaderEnds(result) = {} THEN <<"<no header>">>
    ELSE Drop(result, CHOOSE i \in HeaderEnds(result) : \A j \in HeaderEnds(result) : i <= j)

EndsWith(s, t) == Len(t) <= Len(s) /\ SubSeq(s, Len(s) - Len(t) + 1, Len(s)) = t

\* a write then a read of the same path, as two consecutive calls
WriteThenRead(before, after) ==
    Wrote(before, "Wrote file") /\ Reads(after) /\ SamePath(before, after)

\* two appends to the same path, as two consecutive calls
AppendTwice(before, after) ==
    Wrote(before, "Appended to") /\ Wrote(after, "Appended to") /\ SamePath(before, after)

\* the file holds the first content followed by the second
HoldsBoth(before, after, f) ==
    LET file == Destination(f, CURRENT_DIR, after.call)
    IN  /\ IsFile(f, file)
        /\ EndsWith(f[file].text, before.call.arguments.obj.content
                                   \o after.call.arguments.obj.content)

\* C8 as claimed: a write with append=false followed by a read of the same
\* path returns exactly the written content, whatever the content; two
\* appends leave the file holding the first content followed by the second.
C8_WriteReadAnyContent ==
    [][/\ WriteThenRead(last, last')
            => BodyOf(last'.result) = last.call.arguments.obj.content
       /\ AppendTwice(last, last') => HoldsBoth(last, last', fs')]_vars

\* C8 amended: a successful write with append=false of a content without
\* carriage returns and of at most 4000 characters, followed by a read of
\* the same path, returns the header line "File content of <path>:" and
\* then exactly the written content; two successful appends to the same
\* path leave the file ending with the first content followed by the second.
C8_WriteReadPlainContent ==
    [][/\ (/\ WriteThenRead(last, last')
           /\ \A i \in 1..Len(last.call.arguments.obj.content) :
                 last.call.arguments.obj.content[i] # "\r"
           /\ Len(last.call.arguments.obj.content) <= READ_MAX_LEN)
          => /\ last'.result[1] = "File content of "
             /\ BodyOf(last'.result) = last.call.arguments.obj.content
       /\ AppendTwice(last, last')
          => /\ HoldsBoth(last, last', fs')
             /\ fs'[Destination(fs, CURRENT_DIR, last'.call)].text
                  = fs[Destination(fs, CURRENT_DIR, last'.call)].text
                    \o last'.call.arguments.obj.content]_vars

\* a content of exactly 4000 characters, a line feed among them, has been
\* written to a new file below a new directory and read back whole
C8_Witness ==
    /\ Reads(last)
    /\ calls = 2
    /\ last.call.arguments.obj.path = <<"n", "/", "f">>
    /\ last.result[1] = "File content of "
    /\ Len(BodyOf(last.result)) = READ_MAX_LEN
    /\ BodyOf(last.result)[1] = "\n"

\* the text read_file gets from the file the call names, when it is a file
\* in the workspace that decodes
ReadableText(step) ==
    UniversalNewlines(fs[Destination(fs, CURRENT_DIR, step.call)].text)

ReadsText(step) ==
    /\ Reads(step)
    /\ IsUnder(Destination(fs, CURRENT_DIR, step.call), WORKSPACE)
    /\ IsFile(fs, Destination(fs, CURRENT_DIR, step.call))
    /\ \A i \in 1..Len(fs[Destination(fs, CURRENT_DIR, step.call)].text) :
          fs[Destination(fs, CURRENT_DIR, step.call)].text[i] # BADBYTE

HasMarker(result) == \E i \in 1..Len(result) : result[i] = "\n...[truncated]..."

\* C9: read_file on a file whose text is longer than 4000 characters returns,
\* after the header line, exactly the first 4000 characters of the text and
\* then the truncation marker; on a text of 4000 characters or fewer it
\* returns the whole text and no marker.
C9_ReadTruncation ==
    ReadsText(last)
    => IF Len(ReadableText(last)) > 4000
       THEN /\ Len(BodyOf(last.result)) = 4001
            /\ SubSeq(BodyOf(last.result), 1, 4000) = SubSeq(ReadableText(last), 1, 4000)
            /\ BodyOf(last.result)[4001] = "\n...[truncated]..."
       ELSE /\ BodyOf(last.result) = ReadableText(last)
            /\ ~HasMarker(last.result)

\* a file of 4001 characters has been read and cut
C9_Witness ==
    /\ ReadsText(last)
    /\ Len(ReadableText(last)) = 4001
    /\ HasMarker(last.result)

\* run_command returned a result for the call of the step
RanCommand(step) ==
    /\ step.op = "call"
    /\ step.call.name = RUN_COMMAND
    /\ step.ran = RUN_COMMAND
    /\ step.result[1] # "Error while running tool '"

\* the directory the command was started in, as the result spells it
RelCwd(f, cur) == RelStr(relative_to(get_current_abs_dir(f, cur)).rel)

ReportsCwd(result, f, cur) ==
    SubSeq(result, 2, 1 + Len(RelCwd(f, cur))) = RelCwd(f, cur)

ExitCodeAt(result) == {i \in 1..Len(result) - 1 : result[i] = "Exit code: "}

ReportsExitStatus(result) ==
    \E i \in ExitCodeAt(result) : \E rc \in -255..255 : result[i + 1] = ToString(rc)

\* what follows the blank line after the exit status
OutputOf(result) ==
    Drop(result, CHOOSE i \in 1..Len(result) : result[i] = "\n\n")

\* stdout of n characters and stderr of m under their labels
Labelled(n, m) ==
    (IF n > 0 THEN STDOUT_LABEL \o Fill("o", n) ELSE <<>>)
    \o (IF m > 0 THEN STDERR_LABEL \o Fill("e", m) ELSE <<>>)

\* the exit status and output section for the CMD_EMIT command that was run
ReportsOutput(result, run) ==
    /\ \A i \in ExitCodeAt(result) : result[i + 1] = ToString(run[2])
    /\ (OutputOf(result) = NO_OUTPUT) <=> (run[1][1] = 0 /\ run[1][2] = 0)
    /\ run[1][1] + run[1][2] > 0 =>
          IF Len(Labelled(run[1][1], run[1][2])) > 6000
          THEN OutputOf(result)
                 = SubSeq(Labelled(run[1][1], run[1][2]), 1, 6000) \o TRUNCATED_CHARS
          ELSE OutputOf(result) = Labelled(run[1][1], run[1][2])

\* C10 as claimed: every result of run_command, the one of the timeout
\* included, reports the numeric exit status and the directory the command
\* ran in.
C10_AlwaysExitStatus ==
    [][RanCommand(last')
       => ReportsExitStatus(last'.result) /\ ReportsCwd(last'.result, fs, CURRENT_DIR)]_vars

\* C10 amended: every result of run_command for a command that ended in time
\* reports the numeric exit status and the directory the command ran in,
\* and the result for a command that timed out reports the timeout and that
\* directory; the output section is "(no output)" exactly when stdout and
\* stderr are both empty, and a combined output longer than 6000 characters
\* is cut to its first 6000 characters plus the marker.
C10_CommandResult ==
    [][RanCommand(last')
       => /\ ReportsCwd(last'.result, fs, CURRENT_DIR)
          /\ IF last'.call.arguments.obj.command = CMD_SLEEP
             THEN last'.result[1] = "Command timed out after 60 seconds in "
             ELSE /\ last'.result[1] = "Command (cwd="
                  /\ ReportsExitStatus(last'.result)
          /\ \A run \in EmitRuns :
                IsEmit(last'.call.arguments.obj.command, run)
                => ReportsOutput(last'.result, run)]_vars

\* a command run below the workspace root has exited with status 2 and a
\* combined output of 6001 characters, cut to 6000
C10_Witness ==
    /\ RanCommand(last)
    /\ CURRENT_DIR = <<<<"a">>>>
    /\ IsEmit(last.call.arguments.obj.command, <<<<RUN_MAX_LEN - 8, 0>>, 2>>)
    /\ Len(OutputOf(last.result)) = RUN_MAX_LEN + Len(TRUNCATED_CHARS)

\* the step listed a path that leads to a place in the workspace
Lists(step) ==
    /\ step.op = "call"
    /\ step.call.name = LIST_DIRECTORY
    /\ PassesPath(step.call)
    /\ IsUnder(Destination(fs, CURRENT_DIR, step.call), WORKSPACE)

SaysEmpty(result) == \E i \in 1..Len(result) : result[i] = "(empty directory)"

\* C11: list_directory on an existing empty directory says "(empty
\* directory)" under "Listing for", on a path that does not exist it says
\* "Directory does not exist", on a path that is not a directory it says
\* "Path is not a directory"; the three results begin differently and only
\* the first mentions emptiness.
C11_EmptyMissingNotDir ==
    Lists(last)
    => LET place == Destination(fs, CURRENT_DIR, last.call)
       IN  /\ (IsDir(fs, place) /\ Children(fs, place) = {})
                => /\ last.result[1] = "Listing for "
                   /\ last.result[Len(last.result)] = "(empty directory)"
           /\ ~Exists(fs, place)
                => /\ last.result[1] = "Directory does not exist: "
                   /\ ~SaysEmpty(last.result)
           /\ (Exists(fs, place) /\ ~IsDir(fs, place))
                => /\ last.result[1] = "Path is not a directory: "
                   /\ ~SaysEmpty(last.result)

\* a directory just created two levels down has been listed as empty
C11_Witness ==
    /\ Lists(last)
    /\ calls = 2
    /\ last.call.arguments.obj.path = <<"n", "/", "d">>
    /\ SaysEmpty(last.result)

\* the response is that of a create that stored a Post
Created(answer, variant) ==
    answer.variant = variant /\ answer.op = "create" /\ answer.status = 200

\* the step takes a new request and answers it
Answers(variant, ops) ==
    /\ served' = served + 1
    /\ response'.n = served'
    /\ response'.variant = variant
    /\ response'.op \in ops

\* the step takes a new sync create for the title: it is answered at once
\* or waits for its insert
TakesSyncCreate(title) ==
    /\ served' = served + 1
    /\ \/ Answers("sync", {"create"}) /\ response'.title = title
       \/ \E request \in inflight' \ inflight : request.title = title

\* C12: a sync create taken right after a sync create of the same title has
\* succeeded is answered 400 and stores nothing; an async create taken right
\* after an async create of the same title succeeds too, and the two rows
\* have different identifiers.
C12_SameTitleTwice ==
    [][/\ (Created(response, "sync") /\ TakesSyncCreate(response.title))
          => /\ Answers("sync", {"create"})
             /\ response'.status = 400
             /\ posts' = posts
             /\ inflight' = inflight
       /\ (/\ Created(response, "async")
           /\ Answers("async", {"create"})
           /\ response'.title = response.title)
          => /\ response'.status = 200
             /\ response'.id # response.id
             /\ {response.id, response'.id} \subseteq DOMAIN posts'
             /\ posts'[response.id].title = response.title
             /\ posts'[response'.id].title = response.title]_vars

\* two rows hold the same title, both stored by the async create, and a
\* sync create of that title has just been refused
C12_Witness ==
    /\ response.variant = "sync"
    /\ response.op = "create"
    /\ response.status = 400
    /\ Cardinality({i \in DOMAIN posts : posts[i].title = response.title}) = 2

\* C13 as claimed: in the async variant a get right after a create returns
\* the created title and content under the returned identifier, and once a
\* delete of an identifier has succeeded every later get, update or delete
\* of that identifier is answered 404.
C13_GoneForEver ==
    [][/\ (/\ Created(response, "async")
           /\ Answers("async", {"get"})
           /\ response'.id = response.id)
          => /\ response'.status = 200
             /\ response'.title = response.title
             /\ response'.content = response.content
       /\ (Answers("async", {"get", "update", "delete"}) /\ response'.id \in removed)
          => response'.status = 404]_vars

\* C13 amended: in the async variant a get right after a create returns the
\* created title and content under the returned identifier; a delete that
\* succeeds removes the row, and every later get, update or delete of that
\* identifier is answered 404 for as long as no later create has been
\* given the same identifier.
C13_GoneUntilReassigned ==
    [][/\ (/\ Created(response, "async")
           /\ Answers("async", {"get"})
           /\ response'.id = response.id)
          => /\ response'.status = 200
             /\ response'.title = response.title
             /\ response'.content = response.content
       /\ (Answers("async", {"delete"}) /\ response'.status = 200)
          => response'.id \notin DOMAIN posts'
       /\ (/\ Answers("async", {"get", "update", "delete"})
           /\ response'.id \in removed
           /\ response'.id \notin DOMAIN posts)
          => /\ response'.status = 404
             /\ posts' = posts]_vars

\* a Post was created and deleted, and an update of its identifier has
\* been answered 404
C13_Witness ==
    /\ response.variant = "async"
    /\ response.op = "update"
    /\ response.status = 404
    /\ response.id \in removed
    /\ high >= response.id

\* C20: in the sync variant no two rows of the table have the same title,
\* however the lookups and inserts of the create requests interleave.
C20_TitlesUnique ==
    \A i \in DOMAIN posts, j \in DOMAIN posts :
        posts[i].title = posts[j].title => i = j

-----------------------------------------------------------------------------
(* C14: a turn starts from the policy, the directory note and the user's   *)
(* message alone.                                                          *)

\* the step is the start of a turn on the line last'.arg
StartsTurn == pc = "prompt" /\ last'.op = "turn"

\* a tool call has been dispatched since the process started
EarlierTurnCalled == calls > 0

\* C14: whenever a turn starts, whatever earlier turns did, the message
\* sequence it starts from is exactly the policy text, the note on the
\* current directory as it is now and the user's line, no tool call of an
\* earlier response is pending or recorded, and no completion request counts
\* for it yet; the current directory and the filesystem are left as they were
C14_FreshTurn ==
    [][StartsTurn =>
        /\ messages' = <<Message("system", SYSTEM_PROMPT),
                         Message("system", CwdNote(CURRENT_DIR)),
                         Message("user", last'.arg)>>
        /\ \A i \in DOMAIN messages' : messages'[i].role \notin {"assistant", "tool"}
        /\ tool_calls' = <<>>
        /\ assistant_msg'.tool_calls = <<>>
        /\ requests' = 0
        /\ CURRENT_DIR' = CURRENT_DIR
        /\ fs' = fs]_vars

\* a turn has just started after an earlier turn dispatched tool calls and
\* the directory was changed
C14_Witness ==
    /\ last.op = "turn"
    /\ EarlierTurnCalled
    /\ CURRENT_DIR # <<>>
    /\ Len(messages) = 3

-----------------------------------------------------------------------------
(* C15: what a round of tool calls adds to the conversation.               *)

\* the step handles the last tool call the current response will see handled
EndsRound == pc = "dispatch" /\ pc' # "dispatch"

\* the conversation as it was when the response of the current round came
BeforeRound == SubSeq(messages, 1, Len(messages) - Len(assistant_msg.tool_calls))

\* in msgs, from position at on: one assistant message listing requested in
\* order, then one tool message per call in the same order, and nothing else
RoundAt(msgs, at, requested) ==
    /\ Len(msgs) = at + Len(requested)
    /\ msgs[at].role = "assistant"
    /\ Len(msgs[at].tool_calls) = Len(requested)
    /\ \A i \in 1..Len(requested) :
          /\ msgs[at].tool_calls[i].id = requested[i].id
          /\ msgs[at].tool_calls[i].name = requested[i].name
          /\ msgs[at].tool_calls[i].arguments = requested[i].arguments
          /\ msgs[at + i].role = "tool"
          /\ msgs[at + i].tool_call_id = requested[i].id

\* every tool message of msgs comes after an assistant message that lists
\* its call
EachResultRequested(msgs) ==
    \A i \in 1..Len(msgs) :
        msgs[i].role = "tool" =>
            \E j \in 1..(i - 1) :
                /\ msgs[j].role = "assistant"
                /\ \E k \in 1..Len(msgs[j].tool_calls) :
                      msgs[j].tool_calls[k].id = msgs[i].tool_call_id

\* C15: the round of a response with n >= 1 tool calls leaves the
\* conversation as it was before the response plus exactly n + 1 messages,
\* the assistant message listing the n calls (id, name, raw arguments) in
\* request order and then the n tool messages in that order, each keyed by
\* its call's id; and whenever the conversation is about to be sent to the
\* model every tool message in it follows the assistant message that asked
\* for it
C15_RoundAddsCallsPlusOne ==
    [][/\ EndsRound =>
            /\ RoundAt(messages', Len(BeforeRound) + 1, tool_calls)
            /\ SubSeq(messages', 1, Len(BeforeRound)) = BeforeRound
       /\ pc' = "request" => EachResultRequested(messages')]_vars

\* the same for the rounds in which no call makes the turn fail
C15_CompletedRound ==
    [][/\ (EndsRound /\ pc' = "request") =>
            /\ RoundAt(messages', Len(BeforeRound) + 1, tool_calls)
            /\ SubSeq(messages', 1, Len(BeforeRound)) = BeforeRound
       /\ pc' = "request" => EachResultRequested(messages')]_vars

-----------------------------------------------------------------------------
(* C16: when a turn returns.                                               *)

\* the tool-calling responses the conversation records
ToolCallingResponses(msgs) ==
    Cardinality({i \in 1..Len(msgs) : msgs[i].role = "assistant"})

\* the step takes a response of the service (no failure of the client)
TakesResponse == pc = "request" /\ requests' = requests + 1 /\ last'.op # "error"

\* run_agent_turn returns in this step
TurnReturns == pc \in {"request", "dispatch"} /\ pc' = "prompt" /\ last'.op # "error"

\* C16: run_agent_turn returns at exactly the first response without tool
\* calls: a response with tool calls goes to the dispatch of its calls and a
\* response without them ends the turn in that step; what is returned is a
\* text (no None), one completion request has then been made per
\* tool-calling response before it plus one; the code puts no cap on the
\* rounds (the turn is left only by that response or by a failure), and a turn
\* in which the service stops asking for tools comes to its end.
C16_ReturnsAtFirstPlainResponse ==
    /\ [][/\ TakesResponse =>
                \/ pc' = "dispatch" /\ tool_calls' # <<>> /\ messages' = messages
                \/ last'.op = "final" /\ pc' = "prompt"
          /\ TurnReturns =>
                /\ pc = "request"
                /\ last'.op = "final"
                /\ IsText(last'.result)
                /\ printed' = <<"\nAgent:\n">> \o last'.result \o <<"\n">>
                /\ requests' = ToolCallingResponses(messages) + 1
          /\ (pc \in {"request", "dispatch"} /\ pc' \notin {"request", "dispatch"})
                => last'.op \in {"final", "error"}]_vars
    /\ (pc \in {"request", "dispatch"}) ~> (pc = "prompt")

\* a turn has returned the empty text for a response without content, after
\* two rounds of tool calls and three completion requests
C16_Witness ==
    /\ last.op = "final"
    /\ last.result = <<>>
    /\ requests = 3

-----------------------------------------------------------------------------
(* C17: the four branches of the CLI loop.                                 *)

\* the step reads a line (input() returned)
ReadsLine == pc = "prompt" /\ last'.op # "eof"

IsBlank(line) == line = <<>>

IsExit(line) == Lower(line) \in {<<"e", "x", "i", "t">>, <<"q", "u", "i", "t">>}

IsNavigation(line) ==
    /\ Len(line) >= 2
    /\ Lower(line)[1] = "c"
    /\ Lower(line)[2] = "d"

\* the step makes no completion request and starts no turn
NoRequest == requests' = requests /\ messages' = messages /\ pc' # "request"

\* C17: every line read is taken by exactly one branch: a blank line changes
\* nothing, exit or quit in any case ends the loop, a line whose lowercase
\* form starts with "cd" goes to change_directory with what follows its first
\* word and makes no completion request, and any other line starts a turn
\* and leaves the current directory as it is
C17_FourBranches ==
    [][ReadsLine =>
        /\ last'.op \in {"blank", "exit", "cd", "turn"}
        /\ last'.op = "blank" =>
              /\ IsBlank(last'.arg)
              /\ NoRequest /\ pc' = "prompt"
              /\ CURRENT_DIR' = CURRENT_DIR /\ printed' = printed
        /\ last'.op = "exit" =>
              /\ IsExit(last'.arg)
              /\ NoRequest /\ pc' = "exited" /\ CURRENT_DIR' = CURRENT_DIR
        /\ last'.op = "cd" =>
              /\ \E raw \in InputLines :
                    /\ IsNavigation(Strip(raw))
                    /\ last'.arg = PathArg(Strip(raw))
              /\ CURRENT_DIR' = change_directory(fs, CURRENT_DIR, last'.arg).cur
              /\ last'.result = change_directory(fs, CURRENT_DIR, last'.arg).out
              /\ NoRequest
        /\ last'.op = "turn" =>
              /\ ~IsBlank(last'.arg) /\ ~IsExit(last'.arg) /\ ~IsNavigation(last'.arg)
              /\ pc' = "request"
              /\ CURRENT_DIR' = CURRENT_DIR]_vars

\* a navigation line has moved the current directory after an earlier turn
\* made its completion request
C17_Witness ==
    /\ last.op = "cd"
    /\ last.from # CURRENT_DIR
    /\ requests > 0
    /\ pc = "prompt"

-----------------------------------------------------------------------------
(* C18: who changes CURRENT_DIR.                                           *)

\* the step is a call of change_directory (agent.py:559)
Navigates == pc = "prompt" /\ last'.op = "cd"

\* the step runs a tool through run_agent_turn
RunsTool == pc = "dispatch" /\ last'.call.id # 0

\* C18: a step that changes CURRENT_DIR is a call of change_directory; the
\* start of a turn, a response of the service, a failure and the dispatch of
\* any tool call (its safe_path included, a run_command of "cd .." included),
\* whether it gives a result, an error text or raises, leave CURRENT_DIR as
\* it was
C18_OnlyNavigationMoves ==
    [][/\ CURRENT_DIR' # CURRENT_DIR => Navigates
       /\ RunsTool => CURRENT_DIR' = CURRENT_DIR
       /\ pc \in {"request", "dispatch"} => CURRENT_DIR' = CURRENT_DIR]_vars

\* run_command has run "cd .." in a directory below the workspace root and
\* the turn goes on
C18_Witness ==
    /\ last.op = "call"
    /\ last.call.name = RUN_COMMAND
    /\ last.call.arguments = ObjectArgs([command |-> CMD_CD])
    /\ CURRENT_DIR # <<>>
    /\ pc \in {"request", "dispatch"}

-----------------------------------------------------------------------------
(* C19: where safe_path sends a path.                                      *)

\* the step called list_directory with a path argument
ListsPath(step) ==
    step.op = "call" /\ step.call.name = LIST_DIRECTORY /\ PassesPath(step.call)

\* the directories CURRENT_DIR takes
CurrentDirs == {<<>>, <<<<"a">>>>}

\* the path is absent, empty or whitespace only
IsBlankPath(path) == path = None \/ \A i \in 1..Len(path) : path[i] \in Whitespace

\* the path without the '/' at its start
AfterSlashes(path) ==
    LET at == {i \in 1..Len(path) : path[i] # "/"}
    IN  IF at = {} THEN <<>>
        ELSE SubSeq(path, CHOOSE i \in at : \A j \in at : i <= j, Len(path))

\* the path as safe_path reads it: backslashes are slashes and the
\* whitespace around it is gone
AsRead(path) ==
    LET slashed == [i \in 1..Len(path) |-> IF path[i] = "\\" THEN "/" ELSE path[i]]
        inner   == {i \in 1..Len(slashed) : slashed[i] \notin Whitespace}
    IN  IF inner = {} THEN <<>>
        ELSE SubSeq(slashed, CHOOSE i \in inner : \A j \in inner : i <= j,
                             CHOOSE i \in inner : \A j \in inner : j <= i)

\* the place the three rules give for a path whose text is text
RuledTarget(f, cur, path, text) ==
    IF IsBlankPath(path) THEN get_current_abs_dir(f, cur)
    ELSE IF text[1] = "/" THEN Resolve(f, WORKSPACE \o PathParts(AfterSlashes(text)))
    ELSE Resolve(f, (WORKSPACE \o cur) \o PathParts(text))

\* the place a result of list_directory names
NamesPlace(result, place) ==
    /\ result[1] \in {"Listing for ", "Directory does not exist: ",
                      "Path is not a directory: "}
    /\ Len(result) > Len(RelStr(Drop(place, Len(WORKSPACE))))
    /\ SubSeq(result, 2, 1 + Len(RelStr(Drop(place, Len(WORKSPACE)))))
          = RelStr(Drop(place, Len(WORKSPACE)))
    /\ result[1] = "Listing for "
          => result[2 + Len(RelStr(Drop(place, Len(WORKSPACE))))] = ":\n"

\* what a path and the text it is read as must lead to
FollowsRules(path, text) ==
    /\ safe_path(fs, CURRENT_DIR, path).target
          = RuledTarget(fs, CURRENT_DIR, path, text)
    /\ (~IsBlankPath(path) /\ text[1] = "/")
          => \A cur \in CurrentDirs :
                safe_path(fs, cur, path).target
                   = safe_path(fs, CURRENT_DIR, path).target
    /\ IsUnder(RuledTarget(fs, CURRENT_DIR, path, text), WORKSPACE)
          => NamesPlace(last.result, RuledTarget(fs, CURRENT_DIR, path, text))

\* C19 as claimed: a path that starts with '/' leads to the rest of it below
\* the workspace root, whatever the current directory; a path that does not
\* start with '/' leads to the path below the current directory; an absent,
\* empty or whitespace-only path leads to the current directory.
C19_LeadingSlashOfPath ==
    ListsPath(last)
    => FollowsRules(last.call.arguments.obj.path, last.call.arguments.obj.path)

\* C19 amended: the same of the path as safe_path reads it, with its
\* backslashes turned into slashes and the whitespace around it trimmed.
C19_LeadingSlashAsRead ==
    ListsPath(last)
    => FollowsRules(last.call.arguments.obj.path,
                    IF IsBlankPath(last.call.arguments.obj.path) THEN <<>>
                    ELSE AsRead(last.call.arguments.obj.path))

\* from the directory a, list_directory of "/" has listed the workspace root
C19_Witness ==
    /\ ListsPath(last)
    /\ CURRENT_DIR = <<<<"a">>>>
    /\ last.call.arguments.obj.path = <<"/">>
    /\ last.result[1] = "Listing for "
    /\ last.result[2] = "."
    /\ Len(last.result) > 4

-----------------------------------------------------------------------------
(* C21: what an async update changes.                                      *)

\* C21: an async update by an identifier no Post has is answered 404 and
\* leaves the table as it was; otherwise it is answered 200 with the
\* refreshed Post, the fields the payload supplies explicitly have the
\* supplied values, the fields it does not supply keep their values, the
\* Post keeps its identifier and no other Post is touched
C21_PartialUpdate ==
    [][Answers("async", {"update"}) =>
        IF response'.id \notin DOMAIN posts
        THEN /\ response'.status = 404
             /\ posts' = posts
        ELSE /\ response'.status = 200
             /\ DOMAIN posts' = DOMAIN posts
             /\ posts'[response'.id].title =
                   IF "title" \in body'.set THEN body'.title
                   ELSE posts[response'.id].title
             /\ posts'[response'.id].content =
                   IF "content" \in body'.set THEN body'.content
                   ELSE posts[response'.id].content
             /\ \A other \in DOMAIN posts \ {response'.id} : posts'[other] = posts[other]
             /\ response'.title = posts'[response'.id].title
             /\ response'.content = posts'[response'.id].content
             /\ high' = high]_vars

\* an update that supplied the content alone has been answered for a Post
\* whose title and content were not the payload's, with another Post in the
\* table
C21_Witness ==
    /\ response.variant = "async" /\ response.op = "update" /\ response.status = 200
    /\ body.set = {"content"}
    /\ body.content = "d"
    /\ posts[response.id] = Row("u", "d")
    /\ Cardinality(DOMAIN posts) >= 2

-----------------------------------------------------------------------------
(* C22: the calls of one response.                                         *)

\* the calls of the current response handled so far
Handled == Len(assistant_msg.tool_calls)

\* the step's call came to an error text or to an exception
CallFailed(step) ==
    \/ step.op = "error"
    \/ /\ step.op = "call"
       /\ step.result # <<>>
       /\ step.result[1] \in {"Error: could not parse arguments for tool '",
                              "Error: unknown tool '",
                              "Error while running tool '"}

\* what the step leaves of the filesystem it found
KeepsFiles == \A p \in DOMAIN fs : p \in DOMAIN fs' /\ fs'[p] = fs[p]

\* the step handles the next call of the response, and the calls after it
\* stay to be handled
HandlesNextCall ==
    /\ last'.call = tool_calls[Handled + 1]
    /\ calls' = calls + 1
    /\ Handled + 1 < Len(tool_calls) =>
          /\ pc' = "dispatch"
          /\ tool_calls' = tool_calls
          /\ Len(assistant_msg'.tool_calls) = Handled + 1

\* C22: the calls of a response are dispatched one at a time in the order
\* of the response, each once; whatever a call comes to (arguments that do
\* not parse, an unknown tool, a path outside the sandbox, a failing
\* implementation), the calls after it are still dispatched, and a failing
\* call leaves in place what the filesystem held before it
C22_EachCallOnceInOrder ==
    [][pc = "dispatch" =>
        /\ HandlesNextCall
        /\ CallFailed(last') => KeepsFiles]_vars

\* the same for the calls whose arguments json.loads parses or rejects
C22_ParsedCallsInOrder ==
    [][(pc = "dispatch" /\ tool_calls[Handled + 1].arguments.kind # "deep") =>
        /\ HandlesNextCall
        /\ CallFailed(last') => KeepsFiles]_vars

-----------------------------------------------------------------------------
(* C23: the directory CURRENT_DIR names.                                   *)

\* C23: whatever cd commands and tool operations have happened, the
\* directory CURRENT_DIR names exists and is a directory, so run_command has
\* a working directory to start in and relative paths a directory to start
\* from
C23_CurrentDirExists == IsDir(fs, get_current_abs_dir(fs, CURRENT_DIR))

====
